---------------------------- MODULE Spec2Model ----------------------------
(***************************************************************************)
(* A model of the storage core of ecs-rs:                                  *)
(*   - EntityManager and IdPool        (src/src/entity.rs)                 *)
(*   - ComponentList                   (src/src/component.rs)              *)
(*   - Buffer                          (src/src/buffer.rs)                 *)
(*                                                                         *)
(* A Vec<X> / Bitv is a sequence; Rust indexes from 0, so element i of a   *)
(* vector v is v[i+1] (operator At).  A panic (an out-of-range index, a     *)
(* failed assertion) or a memory fault ends the call: the object is left   *)
(* as it was when the call stopped, `panicked` becomes TRUE and no further *)
(* operation is run.                                                       *)
(***************************************************************************)
EXTENDS Integers, Sequences, FiniteSets, TLC

\* ------------------------------------------------------------------ bounds
\* Number of create_entity calls (= uuids minted) a behaviour may make.
MaxCreates == 3
\* Number of create_entity / delete_entity calls a behaviour may make.
MaxOps == 5
\* Largest entity index passed to a ComponentList.
MaxSlot == 1
MaxRow == 2

\* ------------------------------------------------------------ vec helpers
\* v[i] of a Rust vector held as a sequence.
At(v, i) == v[i + 1]
\* v[i] = x
Put(v, i, x) == [v EXCEPT ![i + 1] = x]
\* Vec::grow(n, x) / Bitv::grow(n, x): append n copies of x.
Grow(v, n, x) == v \o [k \in 1..n |-> x]
\* Index of the last element of a non-empty sequence.
Last(s) == s[Len(s)]

\* ----------------------------------------------------------------- Entity
\* Uuid::nil(): the all-zero uuid.
NilUuid == 0

\* Entity::new
Entity_new(index, uuid) == [index |-> index, uuid |-> uuid]

\* Entity::nil
Entity_nil == Entity_new(0, NilUuid)

\* Uuid::new_v4(): a random (version 4) uuid.  The n-th uuid minted is
\* modelled as the number n: never nil (a v4 uuid has its version bits set)
\* and different from every uuid minted before.
Uuid_new_v4(n) == n

\* ----------------------------------------------------------------- IdPool
\* IdPool::new
IdPool_new == [recycled |-> <<>>, next_id |-> 1]

\* A get_id that hands out next_id without advancing it.
get_id_noincrement(ids) ==
    IF ids.recycled # <<>>
    THEN [id |-> Last(ids.recycled),
          ids |-> [ids EXCEPT !.recycled = SubSeq(@, 1, Len(@) - 1)]]
    ELSE [id |-> ids.next_id, ids |-> ids]

\* A get_id that reuses the OLDEST released id (a queue, not a stack).
get_id_fifo(ids) ==
    IF ids.recycled # <<>>
    THEN [id |-> Head(ids.recycled),
          ids |-> [ids EXCEPT !.recycled = Tail(@)]]
    ELSE [id |-> ids.next_id,
          ids |-> [ids EXCEPT !.next_id = @ + 1]]

\* IdPool::get_id: the id returned and the pool afterwards.
\* recycled.pop() takes the last element; with none, next_id is returned and
\* incremented.
get_id(ids) ==
    IF ids.recycled # <<>>
    THEN [id |-> Last(ids.recycled),
          ids |-> [ids EXCEPT !.recycled = SubSeq(@, 1, Len(@) - 1)]]
    ELSE [id |-> ids.next_id,
          ids |-> [ids EXCEPT !.next_id = @ + 1]]

\* A return_id that pushes the id twice.
return_id_twice(ids, id) == [ids EXCEPT !.recycled = Append(Append(@, id), id)]

\* IdPool::return_id
return_id(ids, id) == [ids EXCEPT !.recycled = Append(@, id)]

\* ---------------------------------------------------------- EntityManager
\* EntityManager::new
EntityManager_new == [ids |-> IdPool_new, entities |-> <<>>, enabled |-> <<>>]

\* A create_entity that gives every entity the nil uuid.
create_entity_niluuid(m, uuid) ==
    LET got == get_id(m.ids)
        e   == Entity_new(got.id, NilUuid)
        ents == IF e.index >= Len(m.entities)
                THEN Grow(m.entities, (e.index - Len(m.entities)) + 1, Entity_nil)
                ELSE m.entities
        enab == IF e.index >= Len(m.enabled)
                THEN Grow(m.enabled, (e.index - Len(m.enabled)) + 1, FALSE)
                ELSE m.enabled
    IN [ret |-> e,
        em  |-> [ids |-> got.ids,
                 entities |-> Put(ents, e.index, e),
                 enabled  |-> Put(enab, e.index, TRUE)]]

\* EntityManager::create_entity, given the uuid Uuid::new_v4() returns:
\* the entity returned and the manager afterwards.
create_entity(m, uuid) ==
    LET got == get_id(m.ids)
        e   == Entity_new(got.id, uuid)
        ents == IF e.index >= Len(m.entities)
                THEN Grow(m.entities, (e.index - Len(m.entities)) + 1, Entity_nil)
                ELSE m.entities
        enab == IF e.index >= Len(m.enabled)
                THEN Grow(m.enabled, (e.index - Len(m.enabled)) + 1, FALSE)
                ELSE m.enabled
    IN [ret |-> e,
        em  |-> [ids |-> got.ids,
                 entities |-> Put(ents, e.index, e),
                 enabled  |-> Put(enab, e.index, TRUE)]]

\* self.entities[i] and self.enabled[i] panic for an index beyond the vector.
index_panics(m, e) == e.index >= Len(m.entities) \/ e.index >= Len(m.enabled)

\* EntityManager::is_valid, for an index inside the vectors.
is_valid(m, e) == At(m.entities, e.index) = e /\ At(m.enabled, e.index)

\* A delete_entity that first checks is_valid and ignores any other entity.
delete_entity_checked(m, e) ==
    IF At(m.entities, e.index) = e /\ At(m.enabled, e.index)
    THEN [ids |-> [m.ids EXCEPT !.recycled = Append(@, e.index)],
          entities |-> Put(m.entities, e.index, Entity_nil),
          enabled  |-> Put(m.enabled, e.index, FALSE)]
    ELSE m

\* A delete_entity that releases the id but leaves the slot as it is.
delete_entity_noreset(m, e) == [m EXCEPT !.ids = return_id(@, e.index)]

\* EntityManager::delete_entity, for an index inside the vectors.
delete_entity(m, e) ==
    [ids |-> return_id(m.ids, e.index),
     entities |-> Put(m.entities, e.index, Entity_nil),
     enabled  |-> Put(m.enabled, e.index, FALSE)]

\* ----------------------------------------------------------------- Buffer
(***************************************************************************)
(* Buffer is a Vec<u8> and a stride.  Its Index / IndexMut impls are       *)
(* generic in the element type (impl<T> Index<uint, T> for Buffer): the    *)
(* type of the expression a buffer access stands in decides what the bytes *)
(* are viewed as, and as_slice / as_mut_slice transmute the bytes to a     *)
(* slice of that type.  An access is therefore modelled with the size      *)
(* `esz` of the element type used at the place of the access:              *)
(*   - debug_assert_eq!(size_of::<T>(), stride) panics in a debug build    *)
(*     when esz # stride and is compiled out of a release build;           *)
(*   - the slice has bytes.len() / stride elements of esz bytes each, so   *)
(*     element i is bytes [i*esz, i*esz + esz);                            *)
(*   - in a release build with esz # stride those bytes are not row i and  *)
(*     may lie beyond the vector (undefined behaviour).                    *)
(* Multi-byte values are little-endian.                                    *)
(***************************************************************************)
\* The two build profiles: debug assertions on, or compiled out.
Builds == {"debug", "release"}

\* The component types a ComponentList is made for: two plain integers and
\* a &'static reference (all Copy + 'static).
ComponentTypes == {"u32", "u64", "ref"}

\* size_of::<&T>() on a 64-bit target.
PtrSize == 8

\* mem::size_of::<T>()
SizeOf(ty) == IF ty = "u32" THEN 4 ELSE 8

\* mem::size_of::<Option<T>>(): a tag beside the payload, padded to the
\* payload's alignment, except for a reference, whose None is the null
\* pointer.
SizeOfOption(ty) == IF ty = "ref" THEN PtrSize ELSE 2 * SizeOf(ty)

\* TypeId::of::<T>().hash(): one id per type.
TypeIdHash(ty) == ty

\* The component values a caller passes (a "ref" value is the address of
\* some static).
Values == {1, 2}

\* Address of the first of the caller's variables.
ArgBase == 4096

\* The address of the argument `component: &T`: the caller keeps each value
\* it passes in a variable of its own, 8 bytes apart.
AddrOf(v) == ArgBase + PtrSize * v

\* The size bytes of the integer n, and the integer a byte sequence holds.
RECURSIVE Encode(_, _)
Encode(n, size) ==
    IF size = 0 THEN <<>> ELSE <<n % 256>> \o Encode(n \div 256, size - 1)

RECURSIVE Decode(_)
Decode(bs) == IF bs = <<>> THEN 0 ELSE bs[1] + 256 * Decode(Tail(bs))

\* Buffer::new::<T>()
Buffer_new(ty) == [bytes |-> <<>>, stride |-> SizeOf(ty)]

\* Buffer::len
len(b) == Len(b.bytes) \div b.stride

\* Buffer::bytes_len
bytes_len(b) == Len(b.bytes)

\* Buffer::stride
stride(b) == b.stride

\* grown, growing only up to the row and not over it.
grown_exact(b, index) ==
    LET offset == b.stride * index
        length == Len(b.bytes)
    IN IF offset >= length
       THEN [b EXCEPT !.bytes = Grow(@, offset - length, 0)]
       ELSE b

\* grown, adding one byte where a row is due.
grown_plus1(b, index) ==
    LET offset == b.stride * index
        length == Len(b.bytes)
    IN IF offset >= length
       THEN [b EXCEPT !.bytes = Grow(@, (offset - length) + 1, 0)]
       ELSE b

\* index_mut, lines 30-34: grow the bytes with zeros so that row `index`
\* exists.
grown(b, index) ==
    LET offset == b.stride * index
        length == Len(b.bytes)
    IN IF offset >= length
       THEN [b EXCEPT !.bytes = Grow(@, (offset - length) + b.stride, 0)]
       ELSE b

\* bs with the bytes from offset off on replaced by val, as far as bs goes.
Overwrite(bs, off, val) ==
    [k \in 1..Len(bs) |->
        IF k > off /\ k <= off + Len(val) THEN val[k - off] ELSE bs[k]]

\* `buffer[index] = x` for an x of esz bytes (IndexMut::index_mut, then the
\* store through the reference it returns): the outcomes.  fault: the call
\* did not return (a panic, or a memory fault of an out-of-bounds store).
index_mut_store(b, build, index, esz, val) ==
    LET g == grown(b, index)
    IN IF build = "debug" /\ esz # g.stride
       THEN {[fault |-> TRUE, buf |-> g]}
       ELSE IF index >= len(g)
       THEN {[fault |-> TRUE, buf |-> g]}
       ELSE IF esz * index + esz <= Len(g.bytes)
       THEN {[fault |-> FALSE,
              buf |-> [g EXCEPT !.bytes = Overwrite(@, esz * index, val)]]}
       ELSE {[fault |-> FALSE,
              buf |-> [g EXCEPT !.bytes = Overwrite(@, esz * index, val)]],
             [fault |-> TRUE, buf |-> g]}

\* index_load, taking the index for a byte offset.
index_load_unscaled(b, build, index, esz) ==
    IF (build = "debug" /\ esz # b.stride) \/ index >= len(b)
    THEN {[fault |-> TRUE, known |-> FALSE, bytes |-> <<>>]}
    ELSE IF esz = b.stride /\ index + esz <= Len(b.bytes)
    THEN {[fault |-> FALSE, known |-> TRUE,
           bytes |-> SubSeq(b.bytes, index + 1, index + esz)]}
    ELSE {[fault |-> FALSE, known |-> FALSE, bytes |-> <<>>]}

\* `buffer[index]` read as an element of esz bytes (Index::index): the
\* outcomes.  known: bytes are the element's bytes; otherwise the bytes read
\* are not a row of the buffer and the value is unspecified.
index_load(b, build, index, esz) ==
    IF build = "debug" /\ esz # b.stride
    THEN {[fault |-> TRUE, known |-> FALSE, bytes |-> <<>>]}
    ELSE IF index >= len(b)
    THEN {[fault |-> TRUE, known |-> FALSE, bytes |-> <<>>]}
    ELSE IF esz = b.stride
    THEN {[fault |-> FALSE, known |-> TRUE,
           bytes |-> SubSeq(b.bytes, esz * index + 1, esz * index + esz)]}
    ELSE IF esz * index + esz <= Len(b.bytes)
    THEN {[fault |-> FALSE, known |-> FALSE, bytes |-> <<>>]}
    ELSE {[fault |-> FALSE, known |-> FALSE, bytes |-> <<>>],
          [fault |-> TRUE, known |-> FALSE, bytes |-> <<>>]}

\* ---------------------------------------------------------- ComponentList
(***************************************************************************)
(* add, set and add_or_set take `component: &T` and run                    *)
(* `self.buffer[**entity] = component`: the element assigned is the        *)
(* reference, so the buffer is accessed as a slice of &T (PtrSize bytes)   *)
(* and the bytes stored are the address of the caller's argument; the      *)
(* component's own bytes are never copied.  get returns Option<T> and its  *)
(* present branch is `self.buffer[**entity]` with no Some(..) around it:   *)
(* the buffer is read as a slice of Option<T>.                             *)
(* An Option<T> is None (<<>>) or Some(x) (<<x>>).                         *)
(***************************************************************************)
None == <<>>
Some(x) == <<x>>

\* ComponentList::new::<T>()
ComponentList_new(ty) ==
    [buffer |-> Buffer_new(ty), enabled |-> <<>>, id |-> TypeIdHash(ty)]

\* ComponentList::has
has(c, e) == e.index < Len(c.enabled) /\ At(c.enabled, e.index)

\* An enable that sets the bit after the index.
enable_next(enabled, index) ==
    Put(IF index + 1 >= Len(enabled)
        THEN Grow(enabled, (index - Len(enabled)) + 2, FALSE)
        ELSE enabled,
        index + 1, TRUE)

\* Lines 51-56 / 87-92: grow the bitmap up to the index, set the bit.
enable(enabled, index) ==
    Put(IF index >= Len(enabled)
        THEN Grow(enabled, (index - Len(enabled)) + 1, FALSE)
        ELSE enabled,
        index, TRUE)

\* The else-branch add, set and add_or_set share: the store into the buffer
\* and, with setbit, the bitmap update that follows it.
store_component(c, build, e, addr, setbit) ==
    {IF w.fault
     THEN [fault |-> TRUE, val |-> FALSE, cl |-> [c EXCEPT !.buffer = w.buf]]
     ELSE [fault |-> FALSE, val |-> TRUE,
           cl |-> [c EXCEPT !.buffer = w.buf,
                            !.enabled = IF setbit THEN enable(@, e.index)
                                        ELSE @]]
     : w \in index_mut_store(c.buffer, build, e.index, PtrSize,
                             Encode(addr, PtrSize))}

\* ComponentList::add::<ty>(entity, component), component at address addr:
\* the outcomes (fault, the value returned, the list afterwards).
add(c, build, e, ty, addr) ==
    IF e.index < Len(c.enabled) /\ At(c.enabled, e.index)
    THEN {[fault |-> FALSE, val |-> FALSE, cl |-> c]}
    ELSE IF TypeIdHash(ty) # c.id
    THEN {[fault |-> FALSE, val |-> FALSE, cl |-> c]}
    ELSE store_component(c, build, e, addr, TRUE)

\* ComponentList::set::<ty>(entity, component)
set(c, build, e, ty, addr) ==
    IF e.index >= Len(c.enabled) \/ ~At(c.enabled, e.index)
    THEN {[fault |-> FALSE, val |-> FALSE, cl |-> c]}
    ELSE IF TypeIdHash(ty) # c.id
    THEN {[fault |-> FALSE, val |-> FALSE, cl |-> c]}
    ELSE store_component(c, build, e, addr, FALSE)

\* ComponentList::add_or_set::<ty>(entity, component)
add_or_set(c, build, e, ty, addr) ==
    IF TypeIdHash(ty) # c.id
    THEN {[fault |-> FALSE, val |-> FALSE, cl |-> c]}
    ELSE store_component(c, build, e, addr, TRUE)

\* The values an unspecified Option<T> may turn out to be.
AnyOption == {None} \cup {Some(x) : x \in {0} \cup Values}

\* The Option<ty> that element bytes of size_of::<Option<ty>>() hold, where
\* that is known: for a reference type, null is None.
DecodeOption(ty, bs) ==
    IF ty = "ref" THEN (IF Decode(bs) = 0 THEN {None} ELSE {Some(Decode(bs))})
    ELSE AnyOption

\* ComponentList::get::<ty>(entity): the outcomes (fault, value returned).
\* get does not compare ty with the list's id.
get(c, build, e, ty) ==
    IF e.index < Len(c.enabled) /\ At(c.enabled, e.index)
    THEN UNION {IF r.fault THEN {[fault |-> TRUE, val |-> None]}
                ELSE {[fault |-> FALSE, val |-> x]
                      : x \in IF r.known THEN DecodeOption(ty, r.bytes)
                              ELSE AnyOption}
                : r \in index_load(c.buffer, build, e.index, SizeOfOption(ty))}
    ELSE {[fault |-> FALSE, val |-> None]}

\* `&mut buffer[index]` for an element of esz bytes (IndexMut::index_mut
\* with nothing stored through the reference): the outcomes.
index_mut_ref(b, build, index, esz) ==
    LET g == grown(b, index)
    IN IF (build = "debug" /\ esz # g.stride) \/ index >= len(g)
       THEN {[fault |-> TRUE, buf |-> g]}
       ELSE {[fault |-> FALSE, buf |-> g]}

\* ComponentList::borrow::<ty>(entity): the outcomes.  Its present branch
\* is `self.buffer[**entity]` as Option<&T>: the buffer is read as a slice
\* of nullable pointers, Some(a) being a reference to address a.  borrow
\* does not compare ty with the list's id.
borrow(c, build, e, ty) ==
    IF e.index < Len(c.enabled) /\ At(c.enabled, e.index)
    THEN UNION {IF r.fault THEN {[fault |-> TRUE, val |-> None]}
                ELSE IF r.known
                THEN {[fault |-> FALSE,
                       val |-> IF Decode(r.bytes) = 0 THEN None
                               ELSE Some(Decode(r.bytes))]}
                ELSE {[fault |-> FALSE, val |-> x] : x \in AnyOption}
                : r \in index_load(c.buffer, build, e.index, PtrSize)}
    ELSE {[fault |-> FALSE, val |-> None]}

\* ComponentList::borrow_mut::<ty>(entity): the outcomes (fault, the value
\* returned, the list afterwards).  Some(view): an exclusive view of the
\* size_of::<ty>() bytes at element `index` of the buffer taken as a slice
\* of ty.  borrow_mut does not compare ty with the list's id.
borrow_mut(c, build, e, ty) ==
    IF e.index < Len(c.enabled) /\ At(c.enabled, e.index)
    THEN {[fault |-> w.fault,
           val |-> IF w.fault THEN None
                   ELSE Some([offset |-> SizeOf(ty) * e.index,
                              size |-> SizeOf(ty)]),
           cl |-> [c EXCEPT !.buffer = w.buf]]
          : w \in index_mut_ref(c.buffer, build, e.index, SizeOf(ty))}
    ELSE {[fault |-> FALSE, val |-> None, cl |-> c]}

\* ComponentList::rm: the value returned and the list afterwards.
rm(c, e) ==
    IF e.index < Len(c.enabled) /\ At(c.enabled, e.index)
    THEN [val |-> TRUE, cl |-> [c EXCEPT !.enabled = Put(@, e.index, FALSE)]]
    ELSE [val |-> FALSE, cl |-> c]

\* ComponentList::get_cid
get_cid(c) == c.id

\* ------------------------------------------------------------------ state
VARIABLES
    em,        \* the EntityManager
    minted,    \* number of uuids Uuid::new_v4() has returned
    panicked,  \* a call has panicked
    log,       \* the create_entity / delete_entity calls made, in order
    ret,       \* the last call: its name, its argument and what it returned
    cl,        \* a ComponentList
    build,     \* the build profile the program was compiled with
    stored,    \* per slot, the value last passed to a successful add, set
               \* or add_or_set of the list (0: none yet)
    buf        \* a Buffer used on its own

vars == <<em, minted, panicked, log, ret, cl, build, stored, buf>>

\* Entity values a caller can pass: every index up to one beyond any vector,
\* every uuid minted so far or nil.
EntityValues == [index : 0..(MaxCreates + 1), uuid : 0..MaxCreates]

\* The entities create_entity has returned so far.
Created == {log[k].e : k \in {j \in 1..Len(log) : log[j].op = "create_entity"}}

\* The arguments delete_entity is called with: an entity create_entity
\* returned (current or stale), the nil sentinel, or a forged entity of any
\* index (delete_entity reads only the index).
DeleteArgs == Created \cup {Entity_new(i, NilUuid) : i \in 0..(MaxCreates + 1)}

\* ret.panic: the call panicked (ret.val is then FALSE and means nothing).
NoCall == [op |-> "none", arg |-> Entity_nil, panic |-> FALSE, val |-> FALSE]

InitRegistry ==
    /\ em = EntityManager_new
    /\ minted = 0
    /\ panicked = FALSE
    /\ log = <<>>
    /\ ret = NoCall
    /\ cl = ComponentList_new("u32")
    /\ build = "debug"
    /\ stored = [i \in 0..MaxSlot |-> 0]
    /\ buf = Buffer_new("u32")

\* e = create_entity()
CreateEntity ==
    /\ ~panicked
    /\ minted < MaxCreates
    /\ Len(log) < MaxOps
    /\ LET r == create_entity(em, Uuid_new_v4(minted + 1))
       IN /\ em' = r.em
          /\ log' = Append(log, [op |-> "create_entity", e |-> r.ret,
                                  panic |-> FALSE])
          /\ ret' = [op |-> "create_entity", arg |-> Entity_nil,
                     panic |-> FALSE, val |-> r.ret]
    /\ minted' = minted + 1
    /\ UNCHANGED <<panicked, cl, build, stored, buf>>

\* delete_entity(e)
DeleteEntity ==
    /\ ~panicked
    /\ Len(log) < MaxOps
    /\ \E e \in DeleteArgs :
        /\ log' = Append(log, [op |-> "delete_entity", e |-> e,
                                panic |-> index_panics(em, e),
                                valid |-> /\ ~index_panics(em, e)
                                          /\ is_valid(em, e)])
        /\ ret' = [op |-> "delete_entity", arg |-> e,
                   panic |-> index_panics(em, e), val |-> FALSE]
        /\ IF index_panics(em, e)
           THEN /\ panicked' = TRUE
                /\ UNCHANGED em
           ELSE /\ em' = delete_entity(em, e)
                /\ UNCHANGED panicked
    /\ UNCHANGED <<minted, cl, build, stored, buf>>

\* is_valid(e)
IsValid ==
    /\ ~panicked
    /\ \E e \in EntityValues :
        IF index_panics(em, e)
        THEN /\ panicked' = TRUE
             /\ ret' = [op |-> "is_valid", arg |-> e, panic |-> TRUE,
                        val |-> FALSE]
        ELSE /\ ret' = [op |-> "is_valid", arg |-> e, panic |-> FALSE,
                        val |-> is_valid(em, e)]
             /\ UNCHANGED panicked
    /\ UNCHANGED <<em, minted, log, cl, build, stored, buf>>

NextRegistry == CreateEntity \/ DeleteEntity \/ IsValid

RegistrySpec == InitRegistry /\ [][NextRegistry]_vars


\* ------------------------------------------------------ the ComponentList
\* The entities a ComponentList is called with (it reads only the index).
StoreEntities == {Entity_new(i, 1) : i \in 0..MaxSlot}

\* A list for any component type, in either build.
InitStore ==
    /\ em = EntityManager_new
    /\ minted = 0
    /\ panicked = FALSE
    /\ log = <<>>
    /\ ret = NoCall
    /\ \E ty \in ComponentTypes : cl = ComponentList_new(ty)
    /\ build \in Builds
    /\ stored = [i \in 0..MaxSlot |-> 0]
    /\ buf = Buffer_new("u32")

\* What a call with a component argument records in ret.
StoreCall(op, e, ty, v, o) ==
    [op |-> op, arg |-> e, ty |-> ty, v |-> v,
     panic |-> o.fault, val |-> o.val]

\* add::<ty>(e, &v), the argument at address AddrOf(v)
Add ==
    /\ ~panicked
    /\ \E e \in StoreEntities, ty \in ComponentTypes, v \in Values :
        \E o \in add(cl, build, e, ty, AddrOf(v)) :
            /\ cl' = o.cl
            /\ panicked' = o.fault
            /\ ret' = StoreCall("add", e, ty, v, o)
            /\ stored' = IF o.val THEN [stored EXCEPT ![e.index] = v]
                          ELSE stored
    /\ UNCHANGED <<em, minted, log, build, buf>>

\* set::<ty>(e, &v)
Set ==
    /\ ~panicked
    /\ \E e \in StoreEntities, ty \in ComponentTypes, v \in Values :
        \E o \in set(cl, build, e, ty, AddrOf(v)) :
            /\ cl' = o.cl
            /\ panicked' = o.fault
            /\ ret' = StoreCall("set", e, ty, v, o)
            /\ stored' = IF o.val THEN [stored EXCEPT ![e.index] = v]
                          ELSE stored
    /\ UNCHANGED <<em, minted, log, build, buf>>

\* add_or_set::<ty>(e, &v)
AddOrSet ==
    /\ ~panicked
    /\ \E e \in StoreEntities, ty \in ComponentTypes, v \in Values :
        \E o \in add_or_set(cl, build, e, ty, AddrOf(v)) :
            /\ cl' = o.cl
            /\ panicked' = o.fault
            /\ ret' = StoreCall("add_or_set", e, ty, v, o)
            /\ stored' = IF o.val THEN [stored EXCEPT ![e.index] = v]
                          ELSE stored
    /\ UNCHANGED <<em, minted, log, build, buf>>

\* has(e)
Has ==
    /\ ~panicked
    /\ \E e \in StoreEntities :
        ret' = [op |-> "has", arg |-> e, panic |-> FALSE, val |-> has(cl, e)]
    /\ UNCHANGED <<em, minted, log, build, cl, panicked, stored, buf>>

\* get::<ty>(e)
Get ==
    /\ ~panicked
    /\ \E e \in StoreEntities, ty \in ComponentTypes :
        \E o \in get(cl, build, e, ty) :
            /\ panicked' = o.fault
            /\ ret' = [op |-> "get", arg |-> e, ty |-> ty,
                       panic |-> o.fault, val |-> o.val]
    /\ UNCHANGED <<em, minted, log, build, cl, stored, buf>>

\* rm(e)
Rm ==
    /\ ~panicked
    /\ \E e \in StoreEntities :
        /\ cl' = rm(cl, e).cl
        /\ ret' = [op |-> "rm", arg |-> e, panic |-> FALSE,
                   val |-> rm(cl, e).val]
    /\ UNCHANGED <<em, minted, log, build, panicked, stored, buf>>

\* borrow::<ty>(e)
Borrow ==
    /\ ~panicked
    /\ \E e \in StoreEntities, ty \in ComponentTypes :
        \E o \in borrow(cl, build, e, ty) :
            /\ panicked' = o.fault
            /\ ret' = [op |-> "borrow", arg |-> e, ty |-> ty,
                       panic |-> o.fault, val |-> o.val]
    /\ UNCHANGED <<em, minted, log, build, cl, stored, buf>>

\* borrow_mut::<ty>(e)
BorrowMut ==
    /\ ~panicked
    /\ \E e \in StoreEntities, ty \in ComponentTypes :
        \E o \in borrow_mut(cl, build, e, ty) :
            /\ cl' = o.cl
            /\ panicked' = o.fault
            /\ ret' = [op |-> "borrow_mut", arg |-> e, ty |-> ty,
                       panic |-> o.fault, val |-> o.val]
    /\ UNCHANGED <<em, minted, log, build, stored, buf>>

NextStore ==
    Add \/ Set \/ AddOrSet \/ Has \/ Get \/ Borrow \/ BorrowMut \/ Rm

StoreSpec == InitStore /\ [][NextStore]_vars

\* ---------------------------------------------------------------------------
\* A Buffer on its own: rows written and read through IndexMut and Index at
\* an element type the caller picks.  Buffer::new::<T>() fixes the stride;
\* the accesses are generic in their own element type.
\* ---------------------------------------------------------------------------
\* The values written (258 takes two bytes).
BufValues == {0, 1, 258}

InitBuffer ==
    /\ em = EntityManager_new
    /\ minted = 0
    /\ panicked = FALSE
    /\ log = <<>>
    /\ ret = NoCall
    /\ cl = ComponentList_new("u32")
    /\ stored = [i \in 0..MaxSlot |-> 0]
    /\ build \in Builds
    /\ \E ty \in ComponentTypes : buf = Buffer_new(ty)

\* buffer[k] = v, v of type ty
BufWrite ==
    /\ ~panicked
    /\ \E k \in 0..MaxRow, ty \in ComponentTypes, v \in BufValues :
        \E o \in index_mut_store(buf, build, k, SizeOf(ty),
                                 Encode(v, SizeOf(ty))) :
            /\ buf' = o.buf
            /\ panicked' = o.fault
            /\ ret' = [op |-> "write", index |-> k, esz |-> SizeOf(ty),
                       v |-> v, before |-> len(buf), panic |-> o.fault,
                       val |-> <<>>]
    /\ UNCHANGED <<em, minted, log, cl, build, stored>>

\* buffer[k] read as a ty, the value given by its bytes; a value that is no
\* row of the buffer may be any value.
BufRead ==
    /\ ~panicked
    /\ \E k \in 0..MaxRow, ty \in ComponentTypes :
        \E o \in index_load(buf, build, k, SizeOf(ty)) :
        \E x \in IF o.known THEN {o.bytes}
                 ELSE {Encode(v, SizeOf(ty)) : v \in BufValues} :
            /\ panicked' = o.fault
            /\ ret' = [op |-> "read", index |-> k, esz |-> SizeOf(ty),
                       v |-> 0, before |-> len(buf), panic |-> o.fault,
                       val |-> x]
    /\ UNCHANGED <<em, minted, log, cl, build, stored, buf>>

NextBuffer == BufWrite \/ BufRead

BufferSpec == InitBuffer /\ [][NextBuffer]_vars

\* ------------------------------------------------- claims on the registry
IsCreate(k) == log[k].op = "create_entity"
IsDelete(k) == log[k].op = "delete_entity"

\* C1: once delete_entity(e) has been called on an entity e that
\* create_entity returned, is_valid(e) is false in every later state; a later
\* create_entity that reuses e.index returns an entity of another uuid, which
\* is valid right after the call while e is not.
C1_StaleStaysInvalid ==
    \A k \in 1..Len(log) :
        (IsDelete(k) /\ \E j \in 1..(k - 1) : IsCreate(j) /\ log[j].e = log[k].e)
        => /\ ~index_panics(em, log[k].e)
           /\ ~is_valid(em, log[k].e)
           /\ \A j \in (k + 1)..Len(log) :
                (IsCreate(j) /\ log[j].e.index = log[k].e.index)
                => /\ log[j].e.uuid # log[k].e.uuid
                   /\ (j = Len(log) => is_valid(em, log[j].e))

\* C1's case: an entity was created and deleted, and the last call is a
\* create_entity that reused its index.
C1_Witness ==
    \E k \in 1..Len(log) :
        /\ IsDelete(k)
        /\ \E j \in 1..(k - 1) : IsCreate(j) /\ log[j].e = log[k].e
        /\ k < Len(log) /\ IsCreate(Len(log))
        /\ Last(log).e.index = log[k].e.index

\* C2: no two entities returned by different create_entity calls are valid at
\* the same time while sharing the same (index, uuid) pair.
C2_IdentityUnique ==
    \A i, j \in 1..Len(log) :
        (i < j /\ IsCreate(i) /\ IsCreate(j) /\ log[i].e = log[j].e)
        => ~(is_valid(em, log[i].e) /\ is_valid(em, log[j].e))

\* C2's case: two create_entity calls returned the same index and the second
\* entity is valid.
C2_Witness ==
    \E i, j \in 1..Len(log) :
        /\ i < j /\ IsCreate(i) /\ IsCreate(j)
        /\ log[i].e.index = log[j].e.index
        /\ is_valid(em, log[j].e)

\* C3: no entity returned by create_entity has index 0, whatever entity
\* values delete_entity was called with (the nil sentinel included).
C3_NeverIndexZero ==
    \A k \in 1..Len(log) : IsCreate(k) => log[k].e.index # 0

\* The issuance order the calls made so far should have produced: a release
\* is pushed, a create takes the most recent release not yet reissued, and
\* with none it mints 1, 2, 3, ...  ok: every create so far returned that.
RECURSIVE Replay(_)
Replay(k) ==
    IF k = 0 THEN [pending |-> <<>>, mints |-> 0, ok |-> TRUE]
    ELSE LET p == Replay(k - 1)
             ev == log[k]
         IN IF ev.op = "delete_entity"
            THEN IF ev.panic THEN p
                 ELSE [p EXCEPT !.pending = Append(@, ev.e.index)]
            ELSE IF p.pending # <<>>
                 THEN [pending |-> SubSeq(p.pending, 1, Len(p.pending) - 1),
                       mints |-> p.mints,
                       ok |-> p.ok /\ ev.e.index = Last(p.pending)]
                 ELSE [pending |-> <<>>,
                       mints |-> p.mints + 1,
                       ok |-> p.ok /\ ev.e.index = p.mints + 1]

\* C4: create_entity returns the index most recently released by
\* delete_entity and not yet reissued when there is one; otherwise it mints a
\* fresh index, and fresh indices come in the order 1, 2, 3, ...
C4_IssuanceOrder == Replay(Len(log)).ok

\* C4's case: two different indices were released one after the other and the
\* next create_entity returned the later one.
C4_Witness ==
    \E k \in 2..(Len(log) - 1) :
        /\ IsDelete(k - 1) /\ IsDelete(k) /\ IsCreate(k + 1)
        /\ ~log[k - 1].panic /\ ~log[k].panic
        /\ log[k - 1].e.index # log[k].e.index
        /\ log[k + 1].e.index = log[k].e.index

\* C5: is_valid of an entity whose index is beyond the vectors returns false;
\* it does not panic.
C5_IsValidTotal ==
    (ret.op = "is_valid" /\ ret.arg.index >= Len(em.entities))
    => (~ret.panic /\ ret.val = FALSE)

\* C6: delete_entity on an entity that is not currently valid changes
\* nothing: the slots, the occupancy bits and the free-list stay as they were.
C6_DeleteInvalidNoop ==
    [][(/\ Len(log') = Len(log) + 1
        /\ Last(log').op = "delete_entity"
        /\ (index_panics(em, Last(log').e) \/ ~is_valid(em, Last(log').e)))
       => em' = em]_vars

\* --------------------------------------------- claims on the ComponentList
\* The step is a call of op with the list's own component type.
OwnTypeCall(op) == ret'.op = op /\ ret'.ty = cl.id

\* get::<T>(e) of list c returns exactly the value x, in every outcome.
GetReturns(c, e, x) == get(c, build, e, c.id) = {[fault |-> FALSE, val |-> x]}

\* C7: add(e, v) with the list's own type succeeds exactly when the slot is
\* absent: it then returns true and afterwards has(e) holds and get(e) is
\* Some(v); on a present slot it returns false and changes nothing.
C7_AddContract ==
    [][OwnTypeCall("add") =>
        IF has(cl, ret'.arg)
        THEN ~ret'.panic /\ ret'.val = FALSE /\ cl' = cl
        ELSE /\ ~ret'.panic /\ ret'.val = TRUE
             /\ has(cl', ret'.arg)
             /\ GetReturns(cl', ret'.arg, Some(ret'.v))]_vars

\* C8: set(e, v) with the list's own type succeeds exactly when the slot is
\* present: it then returns true, get(e) is Some(v) afterwards and no
\* occupancy bit changes; on an absent slot it returns false and changes
\* neither the bitmap nor the buffer.
C8_SetContract ==
    [][OwnTypeCall("set") =>
        IF has(cl, ret'.arg)
        THEN /\ ~ret'.panic /\ ret'.val = TRUE
             /\ GetReturns(cl', ret'.arg, Some(ret'.v))
             /\ cl'.enabled = cl.enabled
        ELSE ~ret'.panic /\ ret'.val = FALSE /\ cl' = cl]_vars

\* C9: add_or_set(e, v) with the list's own type returns true from any state
\* of the slot and leaves has(e) true and get(e) Some(v); a second
\* add_or_set(e, v) leaves the list as the first left it.
C9_AddOrSetUpsert ==
    [][OwnTypeCall("add_or_set") =>
        /\ ~ret'.panic /\ ret'.val = TRUE
        /\ has(cl', ret'.arg)
        /\ GetReturns(cl', ret'.arg, Some(ret'.v))
        /\ add_or_set(cl', build, ret'.arg, cl.id, AddrOf(ret'.v))
             = {[fault |-> FALSE, val |-> TRUE, cl |-> cl']}]_vars

\* C10: rm(e) returns true iff the slot was present; afterwards has(e) is
\* false and get(e) is None; the buffer is left as it was; and a later add or
\* add_or_set of v on the slot makes get(e) return Some(v).
C10_RmTombstone ==
    [][ret'.op = "rm" =>
        /\ ret'.val = has(cl, ret'.arg)
        /\ ~has(cl', ret'.arg)
        /\ GetReturns(cl', ret'.arg, None)
        /\ cl'.buffer = cl.buffer
        /\ \A v \in Values :
             /\ \A o \in add(cl', build, ret'.arg, cl.id, AddrOf(v)) :
                  ~o.fault /\ o.val /\ GetReturns(o.cl, ret'.arg, Some(v))
             /\ \A o \in add_or_set(cl', build, ret'.arg, cl.id, AddrOf(v)) :
                  ~o.fault /\ o.val /\ GetReturns(o.cl, ret'.arg, Some(v))]_vars

\* C11: add, set, add_or_set, get, borrow and borrow_mut called with a type
\* other than the list's own report failure (false / None), do not panic,
\* and leave the bitmap and the buffer as they were.
C11_TypeMismatchNoop ==
    [][(/\ ret'.op \in {"add", "set", "add_or_set", "get", "borrow",
                        "borrow_mut"}
        /\ ret'.ty # cl.id)
       => /\ ~ret'.panic
          /\ cl' = cl
          /\ IF ret'.op \in {"add", "set", "add_or_set"}
             THEN ret'.val = FALSE
             ELSE ret'.val = None]_vars

\* C12: has and get never panic and change neither the bitmap nor the
\* buffer; has(e) is true exactly when e's bit is set (an index past the
\* bitmap counts as unset), and get::<T>(e) is Some of the value stored for
\* e when has(e) holds and None otherwise.
C12_HasGetPure ==
    [][/\ ret'.op = "has" =>
            /\ ~ret'.panic
            /\ cl' = cl
            /\ ret'.val = (/\ ret'.arg.index < Len(cl.enabled)
                           /\ At(cl.enabled, ret'.arg.index))
       /\ OwnTypeCall("get") =>
            /\ ~ret'.panic
            /\ cl' = cl
            /\ ret'.val = IF has(cl, ret'.arg)
                          THEN Some(stored[ret'.arg.index])
                          ELSE None]_vars

\* ---------------------------------------------------- claims on the buffer
\* A write at the buffer's own element type.
OwnWrite == ret'.op = "write" /\ ret'.esz = buf.stride

\* Row j of buffer b.
Row(b, j) == SubSeq(b.bytes, b.stride * j + 1, b.stride * j + b.stride)

\* C13: after writing v at index k, a read of index k returns v; this
\* holds from every buffer state, the empty buffer included, where the
\* write first has to grow the buffer.
C13_WriteReadRoundTrip ==
    [][OwnWrite =>
        /\ ~ret'.panic
        /\ \A r \in index_load(buf', build, ret'.index, ret'.esz) :
            ~r.fault /\ r.known /\ Decode(r.bytes) = ret'.v]_vars

\* A write of a two-byte value at index 1 of an empty buffer has happened.
C13_Witness ==
    /\ ret.op = "write" /\ ret.esz = buf.stride /\ ~ret.panic
    /\ ret.before = 0 /\ ret.index = 1 /\ ret.v = 258
    /\ Row(buf, 1) = Encode(258, buf.stride)

\* C14: a write at index k of a buffer of n rows leaves Max(n, k + 1) rows;
\* the rows it added other than k are zero and the rows there were other
\* than k keep their bytes.
C14_GrowthOnWrite ==
    [][OwnWrite =>
        /\ ~ret'.panic
        /\ len(buf') = (IF len(buf) > ret'.index THEN len(buf)
                        ELSE ret'.index + 1)
        /\ \A j \in 0..(len(buf') - 1) :
            j # ret'.index =>
                Row(buf', j) = IF j < len(buf) THEN Row(buf, j)
                               ELSE [i \in 1..buf.stride |-> 0]]_vars

\* A write two rows past the end of a buffer holding a nonzero row.
C14_Witness ==
    /\ ret.op = "write" /\ ret.esz = buf.stride /\ ~ret.panic
    /\ ret.before = 1 /\ ret.index = 2 /\ ret.v = 1
    /\ Row(buf, 0) = Encode(258, buf.stride)
    /\ Row(buf, 1) = Encode(0, buf.stride)

\* C17: the byte length of a buffer is always a multiple of its stride, its
\* logical length is the byte length divided by the stride, and no step
\* makes the byte length smaller.
C17_ByteLengthShape ==
    /\ [](/\ bytes_len(buf) % stride(buf) = 0
          /\ len(buf) * stride(buf) = bytes_len(buf))
    /\ [][bytes_len(buf') >= bytes_len(buf)]_vars

\* A buffer grown to three rows has then been written at row 0.
C17_Witness ==
    /\ ret.op = "write" /\ ~ret.panic
    /\ ret.index = 0 /\ ret.before = 3
    /\ bytes_len(buf) = 3 * stride(buf)

\* ------------------------------------------- further claims on the registry
\* C15: delete_entity checks nothing about its argument: whenever it
\* returns, the slot of the argument's index holds the nil entity, its bit is
\* clear and the index has been pushed on the free list, so that no entity of
\* that index is valid any more; after e = create, delete(e), e2 = create
\* (reusing the index), delete(e), the entity e2 is not valid.
C15_DeleteUnchecked ==
    [][(ret'.op = "delete_entity" /\ ~ret'.panic)
       => LET i == ret'.arg.index
          IN /\ At(em'.entities, i) = Entity_nil
             /\ ~At(em'.enabled, i)
             /\ em'.ids.recycled = Append(em.ids.recycled, i)
             /\ em'.ids.next_id = em.ids.next_id
             /\ \A k \in 1..Len(log) :
                    (IsCreate(k) /\ log[k].e.index = i)
                    => ~is_valid(em', log[k].e)]_vars

\* e = create, delete(e), e2 = create on the same index, delete(e) again:
\* e2 is not valid.
C15_Witness ==
    /\ Len(log) >= 4
    /\ LET n == Len(log)
       IN /\ IsCreate(n - 3) /\ IsDelete(n - 2)
          /\ IsCreate(n - 1) /\ IsDelete(n)
          /\ log[n - 2].e = log[n - 3].e
          /\ log[n].e = log[n - 3].e
          /\ log[n - 1].e.index = log[n].e.index
          /\ log[n - 1].e # log[n].e
          /\ ~log[n].panic
          /\ ~is_valid(em, log[n - 1].e)

\* ------------------------------------------ further claims on the store
\* C16: every slot whose occupancy bit is set lies inside the buffer: its
\* index is below the buffer's logical length.
C16_PresentInsideBuffer ==
    \A i \in 0..(Len(cl.enabled) - 1) :
        At(cl.enabled, i) => i < len(cl.buffer)

\* Slot 1 is present and slot 0 is not: the store that set the bit had to
\* grow the buffer over both rows.
C16_Witness ==
    /\ Len(cl.enabled) = 2
    /\ ~At(cl.enabled, 0) /\ At(cl.enabled, 1)
    /\ len(cl.buffer) = 2
    /\ ret.op \in {"add", "add_or_set"} /\ ret.arg.index = 1 /\ ret.val

\* C18: an add, set, add_or_set or rm on index i that returns changes
\* neither has(e') nor what get::<T>(e') returns for any entity e' of
\* another index, also when the call grows the buffer or the bitmap.
C18_SlotIndependence ==
    [][(ret'.op \in {"add", "set", "add_or_set", "rm"} /\ ~ret'.panic)
       => \A x \in StoreEntities :
            x.index # ret'.arg.index
            => /\ has(cl', x) = has(cl, x)
               /\ get(cl', build, x, cl.id) = get(cl, build, x, cl.id)]_vars

\* ------------------------------------------- further claims on the registry
\* Every delete_entity so far was called on an entity valid at the call.
WellUsed == \A k \in 1..Len(log) : IsDelete(k) => log[k].valid

\* The entities create_entity has returned so far.
Returned == {log[k].e : k \in {j \in 1..Len(log) : IsCreate(j)}}

\* C19: provided delete_entity was only ever called on valid entities, the
\* free list holds no index twice, no index on the free list has its bit
\* set, and every index from 1 to next_id - 1 is either the index of exactly
\* one valid entity and not on the free list, or not the index of a valid
\* entity and on the free list.
C19_SlotAccounting ==
    WellUsed =>
        LET r == em.ids.recycled
            OnFree(i) == \E a \in 1..Len(r) : r[a] = i
            ValidAt(i) == {x \in Returned : x.index = i /\ is_valid(em, x)}
        IN /\ \A a, b \in 1..Len(r) : a # b => r[a] # r[b]
           /\ \A a \in 1..Len(r) :
                r[a] < Len(em.enabled) /\ ~At(em.enabled, r[a])
           /\ \A i \in 1..(em.ids.next_id - 1) :
                /\ i < Len(em.entities) /\ i < Len(em.enabled)
                /\ IF OnFree(i)
                   THEN ValidAt(i) = {} /\ ~At(em.enabled, i)
                   ELSE /\ Cardinality(ValidAt(i)) = 1
                        /\ At(em.enabled, i)
                        /\ At(em.entities, i) \in ValidAt(i)

\* Three indices issued, two of them on the free list, one entity valid,
\* all deletes on valid entities.
C19_Witness ==
    /\ WellUsed
    /\ em.ids.next_id = 4
    /\ Len(em.ids.recycled) = 2
    /\ \E x \in Returned : is_valid(em, x)

\* C20: the entity create_entity returns is valid right after the call;
\* provided delete_entity was only ever called on valid entities, every
\* entity created and not deleted since is valid, and no create_entity makes
\* an entity that was valid invalid.
C20_ValidityLifetime ==
    /\ []((Len(log) > 0 /\ IsCreate(Len(log))) =>
            /\ ~index_panics(em, Last(log).e)
            /\ is_valid(em, Last(log).e))
    /\ [](WellUsed =>
            \A k \in 1..Len(log) :
                (/\ IsCreate(k)
                 /\ \A j \in (k + 1)..Len(log) :
                        ~(IsDelete(j) /\ log[j].e = log[k].e))
                => /\ ~index_panics(em, log[k].e)
                   /\ is_valid(em, log[k].e))
    /\ [][(WellUsed /\ ret'.op = "create_entity" /\ Len(log') > Len(log))
          => \A x \in Returned :
                is_valid(em, x) => is_valid(em', x)]_vars

\* An entity outlives the deletion of a younger one and the create_entity
\* that reuses the younger one's index.
C20_Witness ==
    /\ WellUsed
    /\ Len(log) >= 4
    /\ LET n == Len(log)
       IN /\ IsCreate(n) /\ IsDelete(n - 1)
          /\ log[n].e.index = log[n - 1].e.index
          /\ \E k \in 1..(n - 2) :
                /\ IsCreate(k)
                /\ log[k].e.index # log[n].e.index
                /\ \A j \in 1..n : ~(IsDelete(j) /\ log[j].e = log[k].e)
                /\ is_valid(em, log[k].e)

=============================================================================
